---- MODULE Spec2Model ----
(***************************************************************************)
(* folly/experimental/symbolizer/Symbolizer.h                              *)
(*                                                                         *)
(* State machine of the FrameArray<N> hand-off structure, the capture      *)
(* adapters getStackTrace / getStackTraceSafe (detail::fixFrameArray),     *)
(* the Symbolizer front end and SymbolizePrinter::println(FrameArray).     *)
(*                                                                         *)
(* The header only declares the raw unwinder getStackTrace(addresses, N),  *)
(* Symbolizer::symbolize(addresses, frames, frameCount), image             *)
(* registration and the batch println(addresses, frames, frameCount);      *)
(* those four are modelled from their documented contract.                 *)
(*                                                                         *)
(* Slot indices are 0-based as in the source.  A slot index >= N is past   *)
(* the end of the arrays of FrameArray<N>: an access there is undefined    *)
(* behaviour.  The model keeps such accesses visible: a read yields an     *)
(* arbitrary value, a write lands in the memory behind the array, and      *)
(* both are recorded with the operation that made them (last.reads,        *)
(* last.writes).                                                           *)
(***************************************************************************)
EXTENDS Integers, Sequences, FiniteSets

VARIABLES
  fa,          \* the FrameArray<N>: frameCount, addresses[N], frames[N]
  fileCount_,  \* Symbolizer::fileCount_
  attempts,    \* number of image registrations requested so far
  populated,   \* isSignalFrame values as the caller pre-populated them
  out,         \* lines the last println call sent to the printer's sink
  last         \* the operation that ran last, its inputs and its accesses

vars == <<fa, fileCount_, attempts, populated, out, last>>

(* ------------------------------ bounds -------------------------------- *)

\* Capacity N of the FrameArray<N> instantiation under study.
N == 2

\* The unwinder reports at most N + MaxExtra frames.
MaxExtra == 1

\* Registrations requested in the capture / symbolize / print scenario.
MaxAttempts == 1

\* Registrations requested beyond kMaxFiles in the registration scenario.
MaxOverflow == 2

(* ------------------------- program constants -------------------------- *)

kMaxFiles == 1024

\* Failure sentinel of the unwinder, the value fixFrameArray tests for.
kFailure == -1

(* ------------------------------ helpers ------------------------------- *)

MaxReported == N + MaxExtra

Slots == 0 .. N - 1

Min(a, b) == IF a < b THEN a ELSE b

\* Image k is loaded at address k: address 1 belongs to the first image that
\* registers, address kMaxFiles + 1 to the first image that does not fit into
\* files_.
AddrSet == {1, kMaxFiles + 1}

ImageContains(img, a) == a = img

\* files_[0 .. count-1]: images register in load order, image i+1 in slot i.
files_(count) == [i \in 0 .. count - 1 |-> i + 1]

SymbolizedFrame == [isSignalFrame : BOOLEAN, found : BOOLEAN]

\* Record of the last operation: op, its return value, the unwinder's count n,
\* println's skip, symbolize's address, the frame slots it wrote and the slots
\* it read, and whether a frame it was handed still carried found = true from
\* an earlier symbolize.
Op(name, ret, n, skip, addr, writes, reads, stale) ==
  [op |-> name, ret |-> ret, n |-> n, skip |-> skip, addr |-> addr,
   writes |-> writes, reads |-> reads, stale |-> stale]

NoOp == Op("init", FALSE, 0, 0, 0, {}, {}, FALSE)

(* --------------------------- construction ----------------------------- *)

\* SymbolizedFrame() : found(false); isSignalFrame is left uninitialized.
NewFrames == {f \in [Slots -> SymbolizedFrame] : \A i \in Slots : ~f[i].found}

\* FrameArray() : frameCount(0); addresses are left uninitialized.
NewFrameArray ==
  {[frameCount |-> 0, addresses |-> a, frames |-> f] :
     a \in [Slots -> AddrSet], f \in NewFrames}

Init ==
  /\ fa \in NewFrameArray
  /\ fileCount_ = 0
  /\ attempts = 0
  /\ populated = [i \in Slots |-> fa.frames[i].isSignalFrame]
  /\ out = <<>>
  /\ last = NoOp

(* ------------------------------ capture ------------------------------- *)

\* The raw unwinder getStackTrace(addresses, maxAddresses): stores the first
\* k captured addresses and leaves the other slots alone.
Unwind(addresses, trace, k) ==
  [i \in Slots |-> IF i < k THEN trace[i] ELSE addresses[i]]

\* The loop of fixFrameArray: frames[i].found = false for i < count.  Only the
\* slots of the array are part of the FrameArray value.
ResetFound(frames, count) ==
  [i \in Slots |-> IF i < count THEN [frames[i] EXCEPT !.found = FALSE]
                   ELSE frames[i]]

fixFrameArray_KeepCount(f, n) ==
  IF n # kFailure
    THEN [fa |-> [f EXCEPT !.frameCount = n,
                           !.frames = ResetFound(f.frames, n)],
          ret |-> TRUE, writes |-> 0 .. n - 1]
    ELSE [fa |-> f, ret |-> FALSE, writes |-> {}]

fixFrameArray_Clamp(f, n) ==
  IF n # kFailure
    THEN [fa |-> [f EXCEPT !.frameCount = Min(n, N),
                           !.frames = ResetFound(f.frames, Min(n, N))],
          ret |-> TRUE, writes |-> 0 .. Min(n, N) - 1]
    ELSE [fa |-> [f EXCEPT !.frameCount = 0], ret |-> FALSE, writes |-> {}]

fixFrameArray_NoReset(f, n) ==
  IF n # kFailure
    THEN [fa |-> [f EXCEPT !.frameCount = n], ret |-> TRUE, writes |-> {}]
    ELSE [fa |-> [f EXCEPT !.frameCount = 0], ret |-> FALSE, writes |-> {}]

fixFrameArray_ResetSignal(f, n) ==
  IF n # kFailure
    THEN [fa |-> [f EXCEPT !.frameCount = n,
                           !.frames = [i \in Slots |->
                              IF i < n THEN [isSignalFrame |-> FALSE, found |-> FALSE]
                              ELSE f.frames[i]]],
          ret |-> TRUE, writes |-> 0 .. n - 1]
    ELSE [fa |-> [f EXCEPT !.frameCount = 0], ret |-> FALSE, writes |-> {}]

\* detail::fixFrameArray(fa, n).  n >= 0 on this branch, so the conversion of
\* the ssize_t n to the size_t frameCount keeps its value.  writes are the
\* frame slots the loop stores to, those past the end of the array included.
fixFrameArray(f, n) ==
  IF n # kFailure
    THEN [fa |-> [f EXCEPT !.frameCount = n,
                           !.frames = ResetFound(f.frames, n)],
          ret |-> TRUE, writes |-> 0 .. n - 1]
    ELSE [fa |-> [f EXCEPT !.frameCount = 0], ret |-> FALSE, writes |-> {}]

\* fixFrameArray(fa, unwinder(fa.addresses, N)): the unwinder reports n frames
\* (or kFailure) and has stored k addresses, k = min(n, N) when it succeeds.
Capture(name) ==
  \E n \in {kFailure} \cup (0 .. MaxReported) :
    \E k \in (IF n = kFailure THEN 0 .. N ELSE {Min(n, N)}) :
    \E trace \in [0 .. k - 1 -> AddrSet] :
      LET unwound == [fa EXCEPT !.addresses = Unwind(fa.addresses, trace, k)]
          r == fixFrameArray(unwound, n)
      IN /\ fa' = r.fa
         /\ last' = Op(name, r.ret, n, 0, 0, r.writes, {},
                       \E i \in Slots : i < n /\ fa.frames[i].found)
         /\ UNCHANGED <<fileCount_, attempts, populated, out>>

getStackTrace == Capture("getStackTrace")

getStackTraceSafe == Capture("getStackTraceSafe")

\* The unwinding collaborator or the caller stores frames[i].isSignalFrame.
PrePopulate ==
  \E i \in Slots, b \in BOOLEAN :
    /\ fa' = [fa EXCEPT !.frames[i].isSignalFrame = b]
    /\ populated' = [populated EXCEPT ![i] = b]
    /\ last' = Op("prePopulate", FALSE, 0, 0, 0, {}, {}, FALSE)
    /\ UNCHANGED <<fileCount_, attempts, out>>

(* ----------------------------- Symbolizer ----------------------------- *)

registerImage_NoLimit(count) == count + 1

\* Registration of one more image: appended while a slot of files_ is free,
\* dropped without error otherwise.
registerImage(count) == IF count < kMaxFiles THEN count + 1 ELSE count

RegisterImage(cap) ==
  /\ attempts < cap
  /\ attempts' = attempts + 1
  /\ fileCount_' = registerImage(fileCount_)
  /\ last' = Op("registerImage", FALSE, 0, 0, 0, {}, {}, FALSE)
  /\ UNCHANGED <<fa, populated, out>>

\* Some registered image owns address a.
Owned(a, count) ==
  LET files == files_(count)
  IN \E i \in DOMAIN files : ImageContains(files[i], a)

\* Symbolizer::symbolize(addresses, frames, frameCount) on the slots the two
\* arrays have: a frame whose address no image owns is left as it is.
symbolizeBatch(addresses, frames, count, files) ==
  [i \in DOMAIN frames |->
     IF i < count /\ Owned(addresses[i], files)
       THEN [frames[i] EXCEPT !.found = TRUE]
       ELSE frames[i]]

\* symbolize(FrameArray<N>& fa): symbolize(fa.addresses, fa.frames,
\* fa.frameCount).  Slots i >= N are read behind the arrays: addresses[i] is an
\* arbitrary value there, which a registered image may or may not own.
symbolize ==
  \E hit \in SUBSET (IF fileCount_ > 0 THEN N .. fa.frameCount - 1 ELSE {}) :
    LET count == fa.frameCount
        frames == symbolizeBatch(fa.addresses, fa.frames, count, fileCount_)
        wrote == {i \in Slots : i < count /\ Owned(fa.addresses[i], fileCount_)}
    IN /\ fa' = [fa EXCEPT !.frames = frames]
       /\ last' = Op("symbolize", FALSE, 0, 0, 0, wrote \cup hit,
                     0 .. count - 1,
                     \E i \in Slots : i < count /\ fa.frames[i].found)
       /\ UNCHANGED <<fileCount_, attempts, populated, out>>

symbolizeAddress_True(address, fr, files) ==
  [frame |-> symbolizeBatch([i \in {0} |-> address], [i \in {0} |-> fr], 1, files)[0],
   ret |-> TRUE]

\* bool symbolize(uintptr_t address, SymbolizedFrame& frame):
\* symbolize(&address, &frame, 1); return frame.found.
symbolizeAddress(address, fr, files) ==
  LET r == symbolizeBatch([i \in {0} |-> address], [i \in {0} |-> fr], 1, files)[0]
  IN [frame |-> r, ret |-> r.found]

\* The caller symbolizes one address into a frame of its FrameArray:
\* symbolizer.symbolize(address, fa.frames[i]).
symbolizeOne ==
  \E a \in AddrSet, i \in Slots :
    LET r == symbolizeAddress(a, fa.frames[i], fileCount_)
    IN /\ fa' = [fa EXCEPT !.frames[i] = r.frame]
       /\ last' = Op("symbolizeOne", r.ret, 0, 0, a,
                     IF Owned(a, fileCount_) THEN {i} ELSE {}, {i},
                     fa.frames[i].found)
       /\ UNCHANGED <<fileCount_, attempts, populated, out>>

(* ------------------------------ printing ------------------------------ *)

\* println(addresses, frames, frameCount) on the arrays advanced by first
\* slots: one line per frame, in order; a line is named by the slot it shows.
printlnBatch(first, count) == [j \in 1 .. count |-> first + j - 1]

println_NoSkip(f, skip) == printlnBatch(0, f.frameCount)

\* println(const FrameArray<N>& fa, size_t skip): the lines it prints.  The
\* subtraction is guarded by skip < frameCount, so it cannot wrap.
println(f, skip) ==
  IF skip < f.frameCount
    THEN printlnBatch(skip, f.frameCount - skip)
    ELSE <<>>

Range(s) == {s[j] : j \in DOMAIN s}

\* printer.println(fa, skip); every line shows a slot that println read.
Println ==
  \E skip \in 0 .. MaxReported + 1 :
    LET lines == println(fa, skip)
    IN /\ out' = lines
       /\ last' = Op("println", FALSE, 0, skip, 0, {}, Range(lines), FALSE)
       /\ UNCHANGED <<fa, fileCount_, attempts, populated>>

(* --------------------------- specifications --------------------------- *)

\* Capture and symbolization.
Next ==
  \/ getStackTrace
  \/ getStackTraceSafe
  \/ PrePopulate
  \/ RegisterImage(MaxAttempts)
  \/ symbolize
  \/ symbolizeOne

Spec == Init /\ [][Next]_vars

\* Capture and printing.  println reads fa.frameCount only, so the Symbolizer
\* stays as constructed.
NextPrint ==
  \/ getStackTrace
  \/ getStackTraceSafe
  \/ Println

SpecPrint == Init /\ [][NextPrint]_vars

\* Registration scenario: one new, zeroed FrameArray; images are registered up
\* to and beyond the capacity of files_ and single addresses are symbolized.
InitFiles ==
  /\ Init
  /\ \A i \in Slots : fa.addresses[i] = 1 /\ ~fa.frames[i].isSignalFrame

NextFiles ==
  \/ RegisterImage(kMaxFiles + MaxOverflow)
  \/ symbolizeOne

SpecFiles == InitFiles /\ [][NextFiles]_vars

(* ------------------------------ properties ---------------------------- *)

Captures == {"getStackTrace", "getStackTraceSafe"}

\* C1: when the unwinder reports failure, getStackTrace and getStackTraceSafe
\* set fa.frameCount to 0 and return false, whatever the FrameArray held
\* before, and no frame is read or written for symbolization.
C1_FailureResetsCount ==
  (last.op \in Captures /\ last.n < 0) =>
    /\ fa.frameCount = 0
    /\ last.ret = FALSE
    /\ last.reads = {}
    /\ last.writes = {}

\* A failed capture into a FrameArray that still holds a symbolized frame.
C1_Witness ==
  /\ last.op \in Captures
  /\ last.n = kFailure
  /\ \E i \in Slots : fa.frames[i].found

\* C2: when the unwinder reports n >= 0 frames, getStackTrace returns true and
\* fa.frameCount is exactly n, also when n > N.
C2_SuccessSetsActualCount ==
  (last.op = "getStackTrace" /\ last.n >= 0) =>
    /\ last.ret = TRUE
    /\ fa.frameCount = last.n

\* A successful capture that reported more frames than the array holds.
C2_Witness ==
  /\ last.op = "getStackTrace"
  /\ last.n > N
  /\ fa.frameCount > N

\* C3: a capture stores to no address slot and to no frame slot with index
\* >= N.  (The unwinder stores addresses to slots below N only, see Unwind.)
C3_CaptureWritesWithinCapacity ==
  last.op \in Captures => last.writes \subseteq Slots

\* C4: symbolize(FrameArray&) reads addresses and writes frames at indices
\* below N only.
C4_SymbolizeWithinCapacity ==
  last.op = "symbolize" =>
    /\ last.reads \subseteq Slots
    /\ last.writes \subseteq Slots

\* C5: println(fa, skip) with skip >= fa.frameCount sends nothing to the sink
\* and reads no slot.
C5_SkipPastEndPrintsNothing ==
  (last.op = "println" /\ last.skip >= fa.frameCount) =>
    /\ out = <<>>
    /\ last.reads = {}

\* println skipping all the frames of a FrameArray that has some.
C5_Witness ==
  /\ last.op = "println"
  /\ fa.frameCount > 0
  /\ last.skip >= fa.frameCount

\* C6: println(fa, skip) with skip < fa.frameCount prints, in order, exactly
\* the frames skip .. frameCount-1, one per line, and reads only slots of the
\* array.
C6_PrintsTailWithinCapacity ==
  (last.op = "println" /\ last.skip < fa.frameCount) =>
    /\ out = [j \in 1 .. fa.frameCount - last.skip |-> last.skip + j - 1]
    /\ last.reads \subseteq Slots

\* C7: while no image is registered, every frame has found = false after any
\* symbolize, and symbolize(address, frame) returns false.
C7_NoImagesNothingFound ==
  fileCount_ = 0 =>
    /\ \A i \in Slots : ~fa.frames[i].found
    /\ last.op = "symbolizeOne" => ~last.ret

\* A batch symbolize of captured frames with no image registered.
C7_Witness ==
  /\ fileCount_ = 0
  /\ last.op = "symbolize"
  /\ last.reads # {}

\* C8: fileCount_ never exceeds kMaxFiles; it counts the first kMaxFiles
\* registrations only, and symbolize(address, frame) returns what a
\* Symbolizer holding only those registrations returns.
C8_RegistrationCapped ==
  /\ fileCount_ <= kMaxFiles
  /\ fileCount_ = Min(attempts, kMaxFiles)
  /\ last.op = "symbolizeOne" =>
        last.ret = (last.stale \/ Owned(last.addr, Min(attempts, kMaxFiles)))

\* An address of image kMaxFiles + 1 is looked up after that image tried to
\* register, and is not found.
C8_Witness ==
  /\ attempts > kMaxFiles
  /\ last.op = "symbolizeOne"
  /\ last.addr = kMaxFiles + 1
  /\ ~last.ret

\* C9: isSignalFrame of every frame is what the caller pre-populated: no
\* capture and no symbolize changes it.
C9_SignalFramePassThrough ==
  \A i \in Slots : fa.frames[i].isSignalFrame = populated[i]

\* symbolize has just resolved a captured frame marked as a signal frame.
C9_Witness ==
  /\ last.op = "symbolize"
  /\ \E i \in last.writes \cap Slots :
        fa.frames[i].isSignalFrame /\ fa.frames[i].found

\* C10: right after a successful capture every frame below
\* min(frameCount, N) has found = false; a new FrameArray has frameCount = 0
\* and found = false in every slot.
C10_NoStaleResults ==
  /\ (last.op \in Captures /\ last.ret) =>
        \A i \in Slots : i < Min(fa.frameCount, N) => ~fa.frames[i].found
  /\ last.op = "init" =>
        fa.frameCount = 0 /\ \A i \in Slots : ~fa.frames[i].found

\* A successful capture into a FrameArray whose frames an earlier symbolize
\* had resolved.
C10_Witness ==
  /\ last.op \in Captures
  /\ last.ret
  /\ last.stale
  /\ fa.frameCount > 0

====
